---- MODULE Spec2Model ----
(***************************************************************************)
(* github-wrapped: the resolver getUserProfile (apps/api/src/graphql/      *)
(* resolvers, kept as src/unnamed/part_000), its helpers calculateStreaks  *)
(* and calculateTopLanguages, and the route GET /wrapped/:username of      *)
(* apps/api/src/index.ts.                                                  *)
(*                                                                         *)
(* Dates.  A calendar date string "YYYY-MM-DD" is modelled by its day      *)
(* number d; new Date(s).getTime() is d * MsPerDay (a date-only ISO string *)
(* parses as UTC midnight).  The API runs on Cloudflare Workers, whose     *)
(* local time zone is UTC, so setHours(0,0,0,0) clears the time of day of  *)
(* the UTC instant.  The wall clock is the variable now, in milliseconds.  *)
(*                                                                         *)
(* Requests.  The route reads username and year; year only fills the dates *)
(* of the upstream query, so a request is its username.                    *)
(*                                                                         *)
(* Numbers.  Sizes and counts are integers.  A percentage (a double in the *)
(* code) is kept as the exact fraction num/den, with den = 0 standing for  *)
(* the NaN that 0/0 produces.                                              *)
(***************************************************************************)
EXTENDS Integers, Sequences, FiniteSets, TLC

VARIABLES
    now,            \* wall clock, ms since the epoch of day 0
    pc,             \* where the run stands
    days,           \* calculateStreaks: its argument
    streak,         \* calculateStreaks: its result
    repositories,   \* calculateTopLanguages: its argument
    topLanguages,   \* calculateTopLanguages: its result
    request,        \* GET /wrapped/:username: the request's parameters
    response,       \* what the upstream answers to the resolver's fetch
    result,         \* getUserProfile: how the last call ended, None before it
    prev,           \* getUserProfile: how the call before the last ended
    reply           \* the route's response, None before it

vars == <<now, pc, days, streak, repositories, topLanguages,
          request, response, result, prev, reply>>

streakVars == <<days, streak>>
langVars == <<repositories, topLanguages>>
routeVars == <<request, response, result, prev, reply>>

\* An optional value: None when the field is absent or null, Some(v) otherwise.
None == <<>>
Some(v) == <<v>>
IsSome(o) == o # <<>>
Get(o) == o[1]

\* ---------------------------------------------------------------- bounds
MaxDays == 4            \* longest day list; calendar dates are 0..MaxDays
MaxTicks == 4           \* half days that pass while the route is served
MaxMembers == 2         \* organization memberships of a user
MaxRecords == 3         \* PR and issue records of a user, together

Dates == 0..MaxDays
Counts == {0, 1}        \* contributionCount values
HalfDays == 0..(2 * MaxDays + 3)  \* clock readings, every 12 hours

\* ------------------------------------------------------------- constants
MsPerDay == 86400000    \* 1000 * 60 * 60 * 24
TopN == 5               \* .slice(0, 5)
HalfDay == MsPerDay \div 2

\* the clock while the route is served
ClockStart == 2 * MsPerDay
ClockEnd == ClockStart + MaxTicks * HalfDay

Max(a, b) == IF a >= b THEN a ELSE b
Min(a, b) == IF a <= b THEN a ELSE b

\* Math.floor(a / b) for b > 0 (TLA+'s \div floors)
Floor(a, b) == a \div b

\* ----------------------------------------------------------------- dates
\* new Date(dateString).getTime()
DateGetTime(d) == d * MsPerDay

\* date.setHours(0, 0, 0, 0), local zone UTC
SetHoursZero(t) == t - (t % MsPerDay)

\* ------------------------------------------------------ calculateStreaks
\* [...days].sort((a, b) => getTime(a.date) - getTime(b.date)): a stable
\* ascending sort, written as insertion of each element after its equals.
RECURSIVE InsertDay(_, _)
InsertDay(sorted, day) ==
    IF sorted = <<>> THEN <<day>>
    ELSE IF DateGetTime(Head(sorted).date) - DateGetTime(day.date) > 0
         THEN <<day>> \o sorted
         ELSE <<Head(sorted)>> \o InsertDay(Tail(sorted), day)

\* faulty variant: the defensive sort left out
SortDaysOmitted(ds) == ds

RECURSIVE SortDays(_)
SortDays(ds) ==
    IF ds = <<>> THEN <<>>
    ELSE InsertDay(SortDays(SubSeq(ds, 1, Len(ds) - 1)), ds[Len(ds)])

\* daysDiff of one day against today
DaysDiff(today, date) ==
    Floor(today - SetHoursZero(DateGetTime(date)), MsPerDay)

\* faulty variant: longestStreak is updated inside the daysDiff test
StreakStepLongestInWindow(acc, day, today) ==
    IF day.count > 0
    THEN LET t == acc.temp + 1
             near == DaysDiff(today, day.date) <= 1
         IN  [current |-> IF near THEN t ELSE acc.current,
              longest |-> IF near THEN Max(acc.longest, t) ELSE acc.longest,
              temp    |-> t]
    ELSE [acc EXCEPT !.temp = 0]

\* One iteration of the backward loop; acc = [current, longest, temp].
StreakStep(acc, day, today) ==
    IF day.count > 0
    THEN LET t == acc.temp + 1
         IN  [current |-> IF DaysDiff(today, day.date) <= 1 THEN t ELSE acc.current,
              longest |-> Max(acc.longest, t),
              temp    |-> t]
    ELSE [acc EXCEPT !.temp = 0]

RECURSIVE StreakLoop(_, _, _, _)
StreakLoop(sortedDays, i, acc, today) ==
    IF i < 1 THEN acc
    ELSE StreakLoop(sortedDays, i - 1, StreakStep(acc, sortedDays[i], today), today)

calculateStreaks(ds, clock) ==
    LET sortedDays == SortDays(ds)
        today == SetHoursZero(clock)
        acc == StreakLoop(sortedDays, Len(sortedDays),
                          [current |-> 0, longest |-> 0, temp |-> 0], today)
    IN  [current |-> acc.current, longest |-> acc.longest]

\* -------------------------------------------------- inputs of the streak
NoStreak == [current |-> 0, longest |-> 0]

\* the route is not part of a run of one helper alone
RouteUnused ==
    /\ request = None
    /\ response = None
    /\ result = None
    /\ prev = None
    /\ reply = None

Clocks == {h * HalfDay : h \in HalfDays}

InitStreak ==
    /\ now \in Clocks
    /\ days = <<>>
    /\ pc = "input"
    /\ streak = NoStreak
    /\ repositories = <<>>
    /\ topLanguages = <<>>
    /\ RouteUnused

\* The calendar holds one more day: one entry per calendar date, in any order.
ReceiveDay ==
    /\ pc = "input"
    /\ Len(days) < MaxDays
    /\ \E d \in Dates \ {days[k].date : k \in 1..Len(days)}, c \in Counts :
          days' = Append(days, [date |-> d, count |-> c])
    /\ UNCHANGED <<now, pc, streak, langVars, routeVars>>

CallStreaks ==
    /\ pc = "input"
    /\ streak' = calculateStreaks(days, now)
    /\ pc' = "done"
    /\ UNCHANGED <<now, days, langVars, routeVars>>

NextStreak == ReceiveDay \/ CallStreaks

SpecStreak == InitStreak /\ [][NextStreak]_vars

\* ------------------------------------------- what the streak claims speak of
\* the calendar day the clock shows
TodayDay == now \div MsPerDay

\* the days of a list in ascending date order (dates are distinct)
RECURSIVE AscendingOf(_)
AscendingOf(S) ==
    IF S = {} THEN <<>>
    ELSE LET first == CHOOSE x \in S : \A y \in S : x.date <= y.date
         IN  <<first>> \o AscendingOf(S \ {first})

DaySet(ds) == {ds[k] : k \in 1..Len(ds)}

\* the longest run of neighbouring entries with count > 0
MaxRun(s) ==
    LET ok(i, j) == i <= j /\ \A k \in i..j : s[k].count > 0
        lens == {0} \cup {j - i + 1 : <<i, j>> \in
                             {q \in (1..Len(s)) \X (1..Len(s)) : ok(q[1], q[2])}}
    IN  CHOOSE m \in lens : \A x \in lens : x <= m

AllPositive(ds) == \A k \in 1..Len(ds) : ds[k].count > 0
AllZero(ds) == \A k \in 1..Len(ds) : ds[k].count = 0

\* consecutive calendar dates, in chronological order
Contiguous(ds) == \A k \in 1..(Len(ds) - 1) : ds[k + 1].date = ds[k].date + 1

\* the date is today or yesterday
WithinOneDay(date) == TodayDay - date \in {0, 1}

NoFutureDate(ds) == \A k \in 1..Len(ds) : ds[k].date <= TodayDay

\* C3 (as claimed): for a non-empty list of positive, contiguous days,
\* longest is the length of the list, and current equals longest exactly
\* when the last date is today or yesterday.  Stated on the lists that hold
\* no date after today.
C3_AsClaimed ==
    (pc = "done" /\ days # <<>> /\ AllPositive(days) /\ Contiguous(days)
        /\ NoFutureDate(days))
    => /\ streak.longest = Len(days)
       /\ (streak.current = streak.longest) <=> WithinOneDay(days[Len(days)].date)

\* C10: longest is the longest run of positive days in ascending date order,
\* whatever the order the list is given in; an empty or all-zero list gives
\* {current: 0, longest: 0}.
C10_LongestIsMaxRun ==
    pc = "done" =>
        /\ streak.longest = MaxRun(AscendingOf(DaySet(days)))
        /\ (AllZero(days) => streak = [current |-> 0, longest |-> 0])

\* C10 witness: an unsorted list with a zero day between two positive runs
C10_Witness ==
    /\ pc = "done"
    /\ Len(days) = 4
    /\ days # AscendingOf(DaySet(days))
    /\ \E k \in 1..4 : days[k].count = 0
    /\ streak.longest = 2
    /\ MaxRun(days) = 1

\* ------------------------------------------------- calculateTopLanguages
MaxEdges == 6           \* language edges in one repository list

Sizes == {0, 1}         \* edge.size values

\* languageMap, a Map in insertion order, is the sequence of its entries
\* [name, size, color].
MapIndex(m, name) ==
    IF \E i \in 1..Len(m) : m[i].name = name
    THEN CHOOSE i \in 1..Len(m) : m[i].name = name
    ELSE 0

\* the body of the inner forEach: accumulate one edge
AddEdge(m, edge) ==
    LET i == MapIndex(m, edge.node.name)
    IN  IF i > 0
        THEN [m EXCEPT ![i].size = @ + edge.size]
        ELSE Append(m, [name |-> edge.node.name, size |-> edge.size,
                        color |-> edge.node.color])

RECURSIVE AddEdges(_, _)
AddEdges(m, edges) ==
    IF edges = <<>> THEN m ELSE AddEdges(AddEdge(m, Head(edges)), Tail(edges))

\* repo.languages?.edges?.forEach(...)
AddRepo(m, repo) ==
    IF IsSome(repo.languages) /\ IsSome(Get(repo.languages).edges)
    THEN AddEdges(m, Get(Get(repo.languages).edges))
    ELSE m

RECURSIVE LanguageMap(_, _)
LanguageMap(m, repos) ==
    IF repos = <<>> THEN m ELSE LanguageMap(AddRepo(m, Head(repos)), Tail(repos))

\* .sort((a, b) => b.size - a.size): stable, descending by size
RECURSIVE InsertLang(_, _)
InsertLang(sorted, lang) ==
    IF sorted = <<>> THEN <<lang>>
    ELSE IF lang.size - Head(sorted).size > 0
         THEN <<lang>> \o sorted
         ELSE <<Head(sorted)>> \o InsertLang(Tail(sorted), lang)

\* faulty variant: sorted ascending by size
RECURSIVE SortLangsAscending(_)
SortLangsAscending(ls) ==
    IF ls = <<>> THEN <<>>
    ELSE LET rest == SortLangsAscending(SubSeq(ls, 1, Len(ls) - 1))
             x == ls[Len(ls)]
             before == SelectSeq(rest, LAMBDA y : y.size <= x.size)
             after == SelectSeq(rest, LAMBDA y : y.size > x.size)
         IN  before \o <<x>> \o after

RECURSIVE SortLangs(_)
SortLangs(ls) ==
    IF ls = <<>> THEN <<>>
    ELSE InsertLang(SortLangs(SubSeq(ls, 1, Len(ls) - 1)), ls[Len(ls)])

\* .slice(0, 5)
Slice(s, n) == SubSeq(s, 1, Min(Len(s), n))

RECURSIVE SumSizes(_)
SumSizes(m) == IF m = <<>> THEN 0 ELSE Head(m).size + SumSizes(Tail(m))

\* faulty variant: the total taken over the languages that are returned
TotalSizeOfTop(m) == SumSizes(Slice(SortLangs(m), TopN))

\* Array.from(languageMap.values()).reduce((sum, lang) => sum + lang.size, 0)
TotalSize(m) == SumSizes(m)

\* (data.size / totalSize) * 100 as the fraction num/den; 0/0 is NaN (den = 0)
Percentage(size, totalSize) == [num |-> size * 100, den |-> totalSize]

\* Array.from(languageMap.entries()).map(...): every accumulated language
AllLanguages(repos) ==
    LET m == LanguageMap(<<>>, repos)
        totalSize == TotalSize(m)
    IN  [i \in 1..Len(m) |->
            [name |-> m[i].name, color |-> m[i].color, size |-> m[i].size,
             percentage |-> Percentage(m[i].size, totalSize)]]

calculateTopLanguages(repos) == Slice(SortLangs(AllLanguages(repos)), TopN)

\* ------------------------------------------- inputs of the language ranking
\* Edge lists of a given length.  Names matter to the code only through
\* equality, so a name is the number of its first appearance; colours are
\* opaque to the code, and each edge carries its own (its position) so that
\* the edge a colour was taken from can be told.
NamesIn(es) == {es[k].node.name : k \in 1..Len(es)}

RepoOf(es) == [languages |-> Some([edges |-> Some(es)])]
RepoNoLanguages == [languages |-> None]

\* every edge of a repository list, in the order the code visits them
RECURSIVE EdgesOf(_)
EdgesOf(repos) ==
    IF repos = <<>> THEN <<>>
    ELSE (IF IsSome(Head(repos).languages)
          THEN Get(Get(Head(repos).languages).edges) ELSE <<>>)
         \o EdgesOf(Tail(repos))

\* the edges that may come next
NextEdges(repos) ==
    LET es == EdgesOf(repos)
    IN  {[size |-> z, node |-> [name |-> nm, color |-> Len(es) + 1]] :
            nm \in 1..(Cardinality(NamesIn(es)) + 1), z \in Sizes}

SingleRepoShape(repos) == repos # <<>> /\ Head(repos) = RepoNoLanguages

\* A repository list comes in one of two shapes: one repository per edge, or
\* a repository without languages followed by one holding every edge.
InitLang ==
    /\ now = 0
    /\ pc = "input"
    /\ days = <<>>
    /\ streak = NoStreak
    /\ repositories \in {<<>>, <<RepoNoLanguages, RepoOf(<<>>)>>}
    /\ topLanguages = <<>>
    /\ RouteUnused

\* the upstream lists one more repository, holding one edge
ReceiveRepository ==
    /\ pc = "input"
    /\ Len(EdgesOf(repositories)) < MaxEdges
    /\ ~SingleRepoShape(repositories)
    /\ \E e \in NextEdges(repositories) :
          repositories' = Append(repositories, RepoOf(<<e>>))
    /\ UNCHANGED <<now, pc, streakVars, topLanguages, routeVars>>

\* the upstream lists one more edge in the last repository
ReceiveEdge ==
    /\ pc = "input"
    /\ Len(EdgesOf(repositories)) < MaxEdges
    /\ SingleRepoShape(repositories)
    /\ \E e \in NextEdges(repositories) :
          repositories' = [repositories EXCEPT ![2] =
                              RepoOf(Append(EdgesOf(repositories), e))]
    /\ UNCHANGED <<now, pc, streakVars, topLanguages, routeVars>>

CallTopLanguages ==
    /\ pc = "input"
    /\ topLanguages' = calculateTopLanguages(repositories)
    /\ pc' = "done"
    /\ UNCHANGED <<now, streakVars, repositories, routeVars>>

NextLang == ReceiveRepository \/ ReceiveEdge \/ CallTopLanguages

SpecLang == InitLang /\ [][NextLang]_vars

\* --------------------------------------- what the language claims speak of
\* the positions of the edges that name a language
Occurrences(es, name) == {k \in 1..Len(es) : es[k].node.name = name}

FirstOccurrence(es, name) ==
    CHOOSE k \in Occurrences(es, name) : \A j \in Occurrences(es, name) : k <= j

RECURSIVE SizeOver(_, _)
SizeOver(es, K) ==
    IF K = {} THEN 0
    ELSE LET k == CHOOSE x \in K : TRUE IN es[k].size + SizeOver(es, K \ {k})

\* the accumulated size of a language
SizeOf(es, name) == SizeOver(es, Occurrences(es, name))

\* a ranks before b: larger accumulated size, or the same and met earlier
RanksBefore(es, a, b) ==
    \/ SizeOf(es, a) > SizeOf(es, b)
    \/ SizeOf(es, a) = SizeOf(es, b) /\ FirstOccurrence(es, a) < FirstOccurrence(es, b)

ResultNames(top) == {top[i].name : i \in 1..Len(top)}

\* C7: the result holds distinct language names, each with its summed size
\* and the colour of its first occurrence, in descending order of size with
\* ties in first-encounter order, and is the first min(5, distinct names) of
\* that order, never padded.
C7_TopLanguages ==
    pc = "done" =>
        LET es == EdgesOf(repositories)
            top == topLanguages
        IN  /\ Len(top) = Min(TopN, Cardinality(NamesIn(es)))
            /\ \A i \in 1..Len(top) :
                  /\ top[i].name \in NamesIn(es)
                  /\ top[i].size = SizeOf(es, top[i].name)
                  /\ top[i].color = es[FirstOccurrence(es, top[i].name)].node.color
            /\ \A i \in 1..Len(top), j \in 1..Len(top) :
                  i < j => RanksBefore(es, top[i].name, top[j].name)
            /\ \A i \in 1..Len(top) : \A n \in NamesIn(es) \ ResultNames(top) :
                  RanksBefore(es, top[i].name, n)

\* C7 witness: six languages, one left out, with a tie among those returned
\* and the last edge ranked first
C7_Witness ==
    /\ pc = "done"
    /\ Cardinality(NamesIn(EdgesOf(repositories))) = 6
    /\ Len(topLanguages) = 5
    /\ topLanguages[1].name = 6
    /\ topLanguages[2].size = topLanguages[3].size
    /\ topLanguages[5].size = 0

\* the sum of two percentages; NaN (den = 0) absorbs
FracAdd(p, q) ==
    IF p.den = 0 \/ q.den = 0 THEN [num |-> 0, den |-> 0]
    ELSE [num |-> p.num * q.den + q.num * p.den, den |-> p.den * q.den]

RECURSIVE SumPercentages(_)
SumPercentages(ls) ==
    IF ls = <<>> THEN [num |-> 0, den |-> 1]
    ELSE FracAdd(Head(ls).percentage, SumPercentages(Tail(ls)))

FracIs(p, n) == p.den # 0 /\ p.num = n * p.den

\* C8 (as claimed): for every repository list the percentages of all the
\* accumulated languages sum to 100.
C8_AsClaimed ==
    pc = "done" => FracIs(SumPercentages(AllLanguages(repositories)), 100)

\* C8 (amended): they sum to 100 whenever the accumulated total size is
\* positive.
C8_SumIs100 ==
    (pc = "done" /\ TotalSize(LanguageMap(<<>>, repositories)) > 0)
    => FracIs(SumPercentages(AllLanguages(repositories)), 100)

\* C8 witness: six languages of positive size, so one is cut from the result
C8_Witness ==
    /\ pc = "done"
    /\ Len(AllLanguages(repositories)) = 6
    /\ Len(topLanguages) = 5
    /\ \A i \in 1..6 : AllLanguages(repositories)[i].size > 0
    /\ FracIs(SumPercentages(AllLanguages(repositories)), 100)
    /\ ~FracIs(SumPercentages(topLanguages), 100)

\* ------------------------------------------------------ mapContributionLevel
mapContributionLevel(level) ==
    CASE level = "NONE" -> 0
      [] level = "FIRST_QUARTILE" -> 1
      [] level = "SECOND_QUARTILE" -> 2
      [] level = "THIRD_QUARTILE" -> 3
      [] level = "FOURTH_QUARTILE" -> 4
      [] OTHER -> 0

\* ------------------------------------------- getUserProfile: organizations
\* (x || []) for an optional list
OrEmpty(o) == IF IsSome(o) THEN Get(o) ELSE <<>>

\* (user.organizations?.nodes || []).map(...)
SeedOrganizations(user) ==
    LET nodes == IF IsSome(user.organizations)
                 THEN OrEmpty(Get(user.organizations).nodes) ELSE <<>>
    IN  [i \in 1..Len(nodes) |->
            [name |-> nodes[i].name, login |-> nodes[i].login,
             avatarUrl |-> nodes[i].avatarUrl,
             totalPRs |-> 0, totalIssues |-> 0, repos |-> <<>>]]

\* orgMap, a Map in insertion order, is the sequence of its values.
OrgIndex(orgMap, login) ==
    IF \E i \in 1..Len(orgMap) : orgMap[i].login = login
    THEN CHOOSE i \in 1..Len(orgMap) : orgMap[i].login = login
    ELSE 0

\* Map.prototype.set: a key already there keeps its place and takes the value
OrgSet(orgMap, org) ==
    LET i == OrgIndex(orgMap, org.login)
    IN  IF i > 0 THEN [orgMap EXCEPT ![i] = org] ELSE Append(orgMap, org)

\* new Map(organizations.map((org) => [org.login, org]))
RECURSIVE OrgMapOf(_, _)
OrgMapOf(orgMap, orgs) ==
    IF orgs = <<>> THEN orgMap
    ELSE OrgMapOf(OrgSet(orgMap, Head(orgs)), Tail(orgs))

\* if (!orgMap.has(orgLogin)) orgMap.set(orgLogin, {...})
EnsureOrg(orgMap, repoNode) ==
    LET owner == repoNode.repository.owner
    IN  IF OrgIndex(orgMap, owner.login) > 0 THEN orgMap
        ELSE Append(orgMap, [login |-> owner.login, name |-> owner.login,
                             avatarUrl |-> owner.avatarUrl,
                             totalPRs |-> 0, totalIssues |-> 0, repos |-> <<>>])

\* if (!org.repos.includes(name)) org.repos.push(name)
PushRepo(repos, name) ==
    IF \E k \in 1..Len(repos) : repos[k] = name THEN repos ELSE Append(repos, name)

\* faulty variant: the repository is pushed without the includes test
MergePullRequestNoDedup(orgMap, repoNode) ==
    LET m == EnsureOrg(orgMap, repoNode)
        i == OrgIndex(m, repoNode.repository.owner.login)
    IN  [m EXCEPT ![i].totalPRs = @ + repoNode.contributions.totalCount,
                  ![i].repos = Append(@, repoNode.repository.name)]

\* the body of the forEach over pullRequestContributionsByRepository
MergePullRequest(orgMap, repoNode) ==
    LET m == EnsureOrg(orgMap, repoNode)
        i == OrgIndex(m, repoNode.repository.owner.login)
    IN  [m EXCEPT ![i].totalPRs = @ + repoNode.contributions.totalCount,
                  ![i].repos = PushRepo(@, repoNode.repository.name)]

\* faulty variant: issue records are added to totalPRs
MergeIssueIntoPRs(orgMap, repoNode) ==
    LET m == EnsureOrg(orgMap, repoNode)
        i == OrgIndex(m, repoNode.repository.owner.login)
    IN  [m EXCEPT ![i].totalPRs = @ + repoNode.contributions.totalCount,
                  ![i].repos = PushRepo(@, repoNode.repository.name)]

\* the body of the forEach over issueContributionsByRepository
MergeIssue(orgMap, repoNode) ==
    LET m == EnsureOrg(orgMap, repoNode)
        i == OrgIndex(m, repoNode.repository.owner.login)
    IN  [m EXCEPT ![i].totalIssues = @ + repoNode.contributions.totalCount,
                  ![i].repos = PushRepo(@, repoNode.repository.name)]

RECURSIVE MergePullRequests(_, _)
MergePullRequests(orgMap, nodes) ==
    IF nodes = <<>> THEN orgMap
    ELSE MergePullRequests(MergePullRequest(orgMap, Head(nodes)), Tail(nodes))

RECURSIVE MergeIssues(_, _)
MergeIssues(orgMap, nodes) ==
    IF nodes = <<>> THEN orgMap
    ELSE MergeIssues(MergeIssue(orgMap, Head(nodes)), Tail(nodes))

\* faulty variant: the PR list is read only when the calendar is there
PullRequestNodesWithCalendar(user) ==
    IF IsSome(user.contributionsCollection)
       /\ IsSome(Get(user.contributionsCollection).contributionCalendar)
    THEN OrEmpty(Get(user.contributionsCollection).pullRequestContributionsByRepository)
    ELSE <<>>

\* user.contributionsCollection?.pullRequestContributionsByRepository || []
PullRequestNodes(user) ==
    IF IsSome(user.contributionsCollection)
    THEN OrEmpty(Get(user.contributionsCollection).pullRequestContributionsByRepository)
    ELSE <<>>

\* user.contributionsCollection?.issueContributionsByRepository || []
IssueNodes(user) ==
    IF IsSome(user.contributionsCollection)
    THEN OrEmpty(Get(user.contributionsCollection).issueContributionsByRepository)
    ELSE <<>>

\* Array.from(orgMap.values()) after both merges
Organizations(user) ==
    MergeIssues(MergePullRequests(OrgMapOf(<<>>, SeedOrganizations(user)),
                                  PullRequestNodes(user)),
                IssueNodes(user))

\* ------------------------------------------------ getUserProfile: calendar
\* user.contributionsCollection?.contributionCalendar
CalendarOf(user) ==
    IF IsSome(user.contributionsCollection)
    THEN Get(user.contributionsCollection).contributionCalendar
    ELSE None

RECURSIVE FlatMapDays(_)
FlatMapDays(weeks) ==
    IF weeks = <<>> THEN <<>>
    ELSE Head(weeks).contributionDays \o FlatMapDays(Tail(weeks))

\* (...?.weeks || []).flatMap((week) => week.contributionDays)
ContributionCalendarRaw(user) ==
    IF IsSome(CalendarOf(user))
    THEN FlatMapDays(OrEmpty(Get(CalendarOf(user)).weeks))
    ELSE <<>>

\* contributionCalendarRaw.map((day) => ({date, count, level}))
ContributionCalendar(user) ==
    LET raw == ContributionCalendarRaw(user)
    IN  [i \in 1..Len(raw) |->
            [date |-> raw[i].date, count |-> raw[i].contributionCount,
             level |-> mapContributionLevel(raw[i].contributionLevel)]]

\* ...?.contributionCalendar?.totalContributions || 0
TotalContributions(user) ==
    IF IsSome(CalendarOf(user)) THEN Get(CalendarOf(user)).totalContributions ELSE 0

\* user.repositories?.nodes || []
RepositoryNodes(user) ==
    IF IsSome(user.repositories) THEN OrEmpty(Get(user.repositories).nodes) ELSE <<>>

\* ---------------------------------------------------------- getUserProfile
\* An Error object: its message, and the names of its enumerable own
\* properties (message and stack are not enumerable).
NewError(message) == [name |-> "Error", message |-> message, enumerable |-> {}]

\* what reading .message of undefined throws
ReadOfUndefined ==
    [name |-> "TypeError",
     message |-> <<"Cannot read properties of undefined (reading 'message')">>,
     enumerable |-> {}]

\* `GitHub API error: ${response.status} - ${text}`
HttpMessage(status, text) == <<"GitHub API error: ", status, " - ", text>>

\* `User "${username}" not found`
NotFoundMessage(username) == <<"User \"", username, "\" not found">>

\* a call ends by throwing or by returning; ran: the aggregation steps it ran
Throw(e) == [kind |-> "throw", error |-> Some(e), profile |-> None, ran |-> {}]
Return(p) ==
    [kind |-> "return", error |-> None, profile |-> Some(p),
     ran |-> {"organizations", "calendar", "streak", "languages"}]

\* lines 267-378: the profile of a user that was found
Profile(username, user, clock) ==
    [username |-> username,
     name |-> IF user.name # "" THEN user.name ELSE username,
     avatarUrl |-> user.avatarUrl,
     organizations |-> Organizations(user),
     contributionCalendar |-> ContributionCalendar(user),
     totalContributions |-> TotalContributions(user),
     streak |-> calculateStreaks(ContributionCalendar(user), clock),
     topLanguages |-> calculateTopLanguages(RepositoryNodes(user))]

\* result.data?.user
UserOf(body) == IF IsSome(body.data) THEN Get(body.data).user ELSE None

\* lines 250-265 and on: the response is classified, then aggregated
getUserProfile(req, resp, clock) ==
    IF ~resp.ok
    THEN Throw(NewError(HttpMessage(resp.status, resp.text)))
    ELSE IF IsSome(resp.json.errors)
    THEN (IF Get(resp.json.errors) = <<>>
          THEN Throw(ReadOfUndefined)
          ELSE Throw(NewError(Get(resp.json.errors)[1].message)))
    ELSE IF ~IsSome(UserOf(resp.json))
    THEN Throw(NewError(NotFoundMessage(req.username)))
    ELSE Return(Profile(req.username, Get(UserOf(resp.json)), clock))

\* ------------------------------------------------- GET /wrapped/:username
\* JSON.stringify of an object: its enumerable own properties
JsonOfError(e) == [k \in e.enumerable |-> e[k]]

\* c.json(data) / c.json({ error: error }, 500)
ReplyTo(res) ==
    IF res.kind = "return"
    THEN [status |-> 200, body |-> Get(res.profile)]
    ELSE [status |-> 500, body |-> [error |-> JsonOfError(Get(res.error))]]

\* the whole handler: the resolver is called and its outcome answered
GetWrapped ==
    /\ pc = "serving"
    /\ prev = None
    /\ LET res == getUserProfile(request, response, now)
       IN  /\ result' = Some(res)
           /\ reply' = Some(ReplyTo(res))
    /\ prev' = result
    /\ UNCHANGED <<now, pc, streakVars, langVars, request, response>>

\* time passes between two requests
Tick ==
    /\ pc = "serving"
    /\ now < ClockEnd
    /\ now' = now + HalfDay
    /\ UNCHANGED <<pc, streakVars, langVars, routeVars>>

\* ----------------------------------------------------- upstream responses

Logins == {"acme", "beta"}
RepoNames == {"x", "y"}
TotalCounts == {1, 2}

DisplayName(login) == IF login = "acme" THEN "Acme Inc" ELSE "Beta Ltd"
AvatarOf(login) == IF login = "acme" THEN "acme.png" ELSE "beta.png"

\* a node of organizations.nodes
OrgNode(login) ==
    [name |-> DisplayName(login), login |-> login, avatarUrl |-> AvatarOf(login)]

\* an entry of pullRequestContributionsByRepository, or of the issue list
RepoNode(login, repo, n) ==
    [repository |-> [name |-> repo,
                     owner |-> [login |-> login, avatarUrl |-> AvatarOf(login)]],
     contributions |-> [totalCount |-> n]]

RepoNodes == {RepoNode(l, r, n) : l \in Logins, r \in RepoNames, n \in TotalCounts}

CalendarDay(d, n, level) ==
    [date |-> d, contributionCount |-> n, contributionLevel |-> level]

\* a calendar of two weeks: three active days, then a day off
SampleCalendar ==
    [totalContributions |-> 4,
     weeks |-> Some(<<[contributionDays |->
                          <<CalendarDay(0, 1, "FIRST_QUARTILE"),
                            CalendarDay(1, 2, "FOURTH_QUARTILE")>>],
                      [contributionDays |->
                          <<CalendarDay(2, 1, "SOME_NEW_LEVEL"),
                            CalendarDay(3, 0, "NONE")>>]>>)]

LanguageEdge(name, color, size) ==
    [size |-> size, node |-> [name |-> name, color |-> color]]

SampleRepositories ==
    <<RepoOf(<<LanguageEdge("Go", "#00ADD8", 100)>>),
      RepoNoLanguages,
      RepoOf(<<LanguageEdge("Go", "#00ADD8", 50), LanguageEdge("Rust", "#dea584", 50)>>)>>

SampleCollections ==
    {[contributionCalendar |-> cal,
      pullRequestContributionsByRepository |-> prs,
      issueContributionsByRepository |-> iss] :
        cal \in {None, Some([totalContributions |-> 0, weeks |-> None]),
                 Some(SampleCalendar)},
        prs \in {None, Some(<<RepoNode("acme", "x", 2)>>)},
        iss \in {None, Some(<<RepoNode("beta", "x", 1)>>)}}

\* users, each optional field there or not, independently
Users ==
    {[name |-> nm, avatarUrl |-> "octocat.png", organizations |-> orgs,
      contributionsCollection |-> cc, repositories |-> repos] :
        nm \in {"", "The Octocat"},
        orgs \in {None, Some([nodes |-> None]), Some([nodes |-> Some(<<OrgNode("acme")>>)])},
        cc \in {None} \cup {Some(c) : c \in SampleCollections},
        repos \in {None, Some([nodes |-> None]), Some([nodes |-> Some(SampleRepositories)])}}

FullUser ==
    [name |-> "The Octocat", avatarUrl |-> "octocat.png",
     organizations |-> Some([nodes |-> Some(<<OrgNode("acme")>>)]),
     contributionsCollection |->
        Some([contributionCalendar |-> Some(SampleCalendar),
              pullRequestContributionsByRepository |-> Some(<<RepoNode("acme", "x", 2)>>),
              issueContributionsByRepository |-> Some(<<RepoNode("beta", "x", 1)>>)]),
     repositories |-> Some([nodes |-> Some(SampleRepositories)])]

\* the errors entry of a body: absent, empty, one error, two errors
ErrorLists ==
    {None, Some(<<>>), Some(<<[message |-> <<"rate limited">>]>>),
     Some(<<[message |-> <<"rate limited">>], [message |-> <<"timeout">>]>>)}

OkResponses ==
    {[ok |-> TRUE, status |-> "200", text |-> "",
      json |-> [errors |-> e, data |-> d]] :
        e \in ErrorLists,
        d \in {None, Some([user |-> None])} \cup {Some([user |-> Some(u)]) : u \in Users}}

FailedResponses ==
    {[ok |-> FALSE, status |-> st, text |-> "Bad credentials",
      json |-> [errors |-> e, data |-> d]] :
        st \in {"401", "502"}, e \in ErrorLists,
        d \in {None, Some([user |-> Some(FullUser)])}}

StreakUnused == days = <<>> /\ streak = NoStreak
LangUnused == repositories = <<>> /\ topLanguages = <<>>

Init ==
    /\ now = ClockStart
    /\ pc = "serving"
    /\ StreakUnused /\ LangUnused
    /\ request = [username |-> "octocat"]
    /\ response \in OkResponses \cup FailedResponses
    /\ result = None
    /\ prev = None
    /\ reply = None

Next == GetWrapped \/ Tick

Spec == Init /\ [][Next]_vars

\* ---------------------------------------- users with many organizations
\* the user the upstream answers with
TheUser == Get(Get(response.json.data).user)

WithUser(u) == [response EXCEPT !.json.data = Some([user |-> Some(u)])]

InitOrg ==
    /\ now = ClockStart
    /\ pc = "serving"
    /\ StreakUnused /\ LangUnused
    /\ request = [username |-> "octocat"]
    /\ response =
         [ok |-> TRUE, status |-> "200", text |-> "",
          json |-> [errors |-> None,
                    data |-> Some([user |-> Some(
                       [name |-> "", avatarUrl |-> "octocat.png",
                        organizations |-> Some([nodes |-> Some(<<>>)]),
                        contributionsCollection |->
                           Some([contributionCalendar |-> None,
                                 pullRequestContributionsByRepository |-> Some(<<>>),
                                 issueContributionsByRepository |-> Some(<<>>)]),
                        repositories |-> None])])]]
    /\ result = None
    /\ prev = None
    /\ reply = None

\* the user is a member of one more organization
ReceiveMembership ==
    /\ result = None
    /\ Len(Get(Get(TheUser.organizations).nodes)) < MaxMembers
    /\ \E l \in Logins :
          response' = WithUser([TheUser EXCEPT !.organizations =
              Some([nodes |-> Some(Append(Get(Get(@).nodes), OrgNode(l)))])])
    /\ UNCHANGED <<now, pc, streakVars, langVars, request, result, prev, reply>>

RecordCount == Len(PullRequestNodes(TheUser)) + Len(IssueNodes(TheUser))

\* the user has pull requests in one more repository
ReceivePullRequests ==
    /\ result = None
    /\ RecordCount < MaxRecords
    /\ \E n \in RepoNodes :
          response' = WithUser([TheUser EXCEPT !.contributionsCollection =
              Some([Get(@) EXCEPT !.pullRequestContributionsByRepository =
                       Some(Append(Get(@), n))])])
    /\ UNCHANGED <<now, pc, streakVars, langVars, request, result, prev, reply>>

\* the user has issues in one more repository
ReceiveIssues ==
    /\ result = None
    /\ RecordCount < MaxRecords
    /\ \E n \in RepoNodes :
          response' = WithUser([TheUser EXCEPT !.contributionsCollection =
              Some([Get(@) EXCEPT !.issueContributionsByRepository =
                       Some(Append(Get(@), n))])])
    /\ UNCHANGED <<now, pc, streakVars, langVars, request, result, prev, reply>>

NextOrg == ReceiveMembership \/ ReceivePullRequests \/ ReceiveIssues \/ GetWrapped

SpecOrg == InitOrg /\ [][NextOrg]_vars

\* ------------------------------------------ what the route claims speak of
\* the call ended by throwing an error with this message, and nothing else
FailedWith(res, message) ==
    /\ res.kind = "throw"
    /\ Get(res.error).message = message
    /\ res.profile = None
    /\ res.ran = {}

NonEmptyErrors(body) == IsSome(body.errors) /\ Len(Get(body.errors)) > 0

\* C1 (as claimed): a non-success status fails with the status and body text
\* whatever the body holds; otherwise a non-empty errors array fails with the
\* first error's message; otherwise a null or absent user fails with the
\* user-not-found error; no profile is returned and no aggregation step runs.
C1_AsClaimed ==
    IsSome(result) =>
        LET res == Get(result)
            body == response.json
        IN  /\ ~response.ok =>
                  FailedWith(res, HttpMessage(response.status, response.text))
            /\ (response.ok /\ NonEmptyErrors(body)) =>
                  FailedWith(res, Get(body.errors)[1].message)
            /\ (response.ok /\ ~NonEmptyErrors(body) /\ ~IsSome(UserOf(body))) =>
                  FailedWith(res, NotFoundMessage(request.username))

\* C2 (as claimed): when getUserProfile fails with one of its three errors,
\* the route answers with a non-success status and a body {error: message}
\* that carries the failure's message, never a profile.
C2_AsClaimed ==
    (IsSome(result) /\ Get(result).kind = "throw"
        /\ Get(Get(result).error).name = "Error")
    => /\ Get(reply).status \notin 200..299
       /\ DOMAIN Get(reply).body = {"error"}
       /\ Get(reply).body.error = Get(Get(result).error).message

BothReturned ==
    /\ IsSome(prev) /\ Get(prev).kind = "return"
    /\ IsSome(result) /\ Get(result).kind = "return"

\* C4 (as claimed): two runs on the same raw input return the same profile.
C4_AsClaimed ==
    BothReturned => Get(Get(prev).profile) = Get(Get(result).profile)

\* C4 (amended): two runs on the same raw input agree on organizations,
\* contributionCalendar, totalContributions, streak.longest and topLanguages,
\* whatever the clock shows at either run.
C4_SameButCurrent ==
    BothReturned =>
        LET p == Get(Get(prev).profile)
            q == Get(Get(result).profile)
        IN  /\ p.organizations = q.organizations
            /\ p.contributionCalendar = q.contributionCalendar
            /\ p.totalContributions = q.totalContributions
            /\ p.streak.longest = q.streak.longest
            /\ p.topLanguages = q.topLanguages

\* C4 witness: the second run, on a later day, returns another current streak
C4_Witness ==
    /\ BothReturned
    /\ Get(Get(prev).profile).streak.current = 2
    /\ Get(Get(result).profile).streak.current = 0
    /\ Get(Get(result).profile).streak.longest = 3
    /\ Get(Get(result).profile).organizations # <<>>
    /\ Get(Get(result).profile).topLanguages # <<>>

\* the optional fields of a user that are missing
NoMemberships(u) ==
    ~IsSome(u.organizations) \/ ~IsSome(Get(u.organizations).nodes)
NoCollection(u) == ~IsSome(u.contributionsCollection)
NoPullRequests(u) ==
    NoCollection(u)
    \/ ~IsSome(Get(u.contributionsCollection).pullRequestContributionsByRepository)
NoIssues(u) ==
    NoCollection(u)
    \/ ~IsSome(Get(u.contributionsCollection).issueContributionsByRepository)
NoCalendar(u) ==
    NoCollection(u) \/ ~IsSome(Get(u.contributionsCollection).contributionCalendar)
NoWeeks(u) ==
    NoCalendar(u)
    \/ ~IsSome(Get(Get(u.contributionsCollection).contributionCalendar).weeks)
NoRepositories(u) ==
    ~IsSome(u.repositories) \/ ~IsSome(Get(u.repositories).nodes)

UserFound == response.ok /\ ~IsSome(response.json.errors) /\ IsSome(UserOf(response.json))

\* C9: a successful response with a user never fails, whatever optional
\* field is missing; each output is empty (0 for the total, {0, 0} for the
\* streak) exactly when its own inputs are missing, whatever else is there.
C9_MissingFieldsDefault ==
    (IsSome(result) /\ UserFound) =>
        LET u == Get(UserOf(response.json))
            res == Get(result)
            p == Get(res.profile)
        IN  /\ res.kind = "return"
            /\ p.organizations = <<>>
                  <=> (NoMemberships(u) /\ NoPullRequests(u) /\ NoIssues(u))
            /\ p.contributionCalendar = <<>> <=> NoWeeks(u)
            /\ NoWeeks(u) => p.streak = [current |-> 0, longest |-> 0]
            /\ NoCalendar(u) => p.totalContributions = 0
            /\ p.topLanguages = <<>> <=> NoRepositories(u)

\* C9 witness: a user with none of the optional fields
C9_Witness ==
    /\ IsSome(result) /\ UserFound
    /\ LET u == Get(UserOf(response.json))
       IN  NoMemberships(u) /\ NoCollection(u) /\ NoRepositories(u)
    /\ Get(result).kind = "return"
    /\ Get(Get(result).profile).organizations = <<>>
    /\ Get(Get(result).profile).contributionCalendar = <<>>
    /\ Get(Get(result).profile).totalContributions = 0
    /\ Get(Get(result).profile).streak = [current |-> 0, longest |-> 0]
    /\ Get(Get(result).profile).topLanguages = <<>>

\* -------------------------------- what the organization claims speak of
RECURSIVE SumCounts(_, _)
SumCounts(nodes, login) ==
    IF nodes = <<>> THEN 0
    ELSE (IF Head(nodes).repository.owner.login = login
          THEN Head(nodes).contributions.totalCount ELSE 0)
         + SumCounts(Tail(nodes), login)

Owners(nodes) == {nodes[k].repository.owner.login : k \in 1..Len(nodes)}

MemberLogins(u) ==
    LET nodes == Get(Get(u.organizations).nodes)
    IN  {nodes[k].login : k \in 1..Len(nodes)}

Returned == IsSome(result) /\ Get(result).kind = "return"

\* C5: the organizations of the profile have pairwise distinct logins, and
\* no organization lists a repository name twice.
C5_DistinctLoginsAndRepos ==
    Returned =>
        LET orgs == Get(Get(result).profile).organizations
        IN  /\ \A i \in 1..Len(orgs), j \in 1..Len(orgs) :
                  orgs[i].login = orgs[j].login => i = j
            /\ \A i \in 1..Len(orgs) :
                  \A a \in 1..Len(orgs[i].repos), b \in 1..Len(orgs[i].repos) :
                      orgs[i].repos[a] = orgs[i].repos[b] => a = b

\* C5 witness: one repository in two PR records and in an issue record
C5_Witness ==
    /\ Returned
    /\ PullRequestNodes(TheUser) = <<RepoNode("acme", "x", 1), RepoNode("acme", "x", 2)>>
    /\ IssueNodes(TheUser) = <<RepoNode("acme", "x", 1)>>
    /\ MemberLogins(TheUser) = {"acme"}
    /\ Len(Get(Get(TheUser.organizations).nodes)) = 2
    /\ Len(Get(Get(result).profile).organizations) = 1
    /\ Get(Get(result).profile).organizations[1].repos = <<"x">>

\* C6: every organization's totalPRs is the sum of the PR records of its
\* login and its totalIssues the sum of the issue records; one known by
\* membership alone has 0, 0 and no repos; an owner that is no member is
\* there exactly once, named by its login.
C6_Totals ==
    Returned =>
        LET u == TheUser
            orgs == Get(Get(result).profile).organizations
            prs == PullRequestNodes(u)
            iss == IssueNodes(u)
        IN  /\ \A i \in 1..Len(orgs) :
                  /\ orgs[i].totalPRs = SumCounts(prs, orgs[i].login)
                  /\ orgs[i].totalIssues = SumCounts(iss, orgs[i].login)
                  /\ orgs[i].login \notin Owners(prs) \cup Owners(iss) =>
                        /\ orgs[i].login \in MemberLogins(u)
                        /\ orgs[i].totalPRs = 0 /\ orgs[i].totalIssues = 0
                        /\ orgs[i].repos = <<>>
            /\ \A l \in (Owners(prs) \cup Owners(iss)) \ MemberLogins(u) :
                  /\ Cardinality({i \in 1..Len(orgs) : orgs[i].login = l}) = 1
                  /\ \A i \in 1..Len(orgs) : orgs[i].login = l => orgs[i].name = l
            /\ \A l \in MemberLogins(u) : \E i \in 1..Len(orgs) : orgs[i].login = l

\* C6 witness: a member organization without records, and an owner that is
\* no member with two PR records and an issue record
C6_Witness ==
    /\ Returned
    /\ Get(Get(result).profile).organizations =
          <<[name |-> "Beta Ltd", login |-> "beta", avatarUrl |-> "beta.png",
             totalPRs |-> 0, totalIssues |-> 0, repos |-> <<>>],
            [name |-> "acme", login |-> "acme", avatarUrl |-> "acme.png",
             totalPRs |-> 3, totalIssues |-> 2, repos |-> <<"x", "y">>]>>

\* ------------------------------------------------- the current streak
\* some day of the list with count > 0 is dated today or yesterday
PositiveDayInWindow(ds) ==
    \E k \in 1..Len(ds) : ds[k].count > 0 /\ WithinOneDay(ds[k].date)

\* C11 (as claimed): when no day with count > 0 is dated today or yesterday,
\* current is 0, whatever positive days the list holds at other dates.
C11_AsClaimed ==
    (pc = "done" /\ ~PositiveDayInWindow(days)) => streak.current = 0

\* ------------------------------------------- the percentages returned
\* the sum of the sizes of every edge
SizeOfAll(es) == SizeOver(es, 1..Len(es))

\* p is a number, between 0 and 100, and equal to 100 * size / total
IsPercentageOf(p, size, total) ==
    /\ p.den > 0
    /\ 0 <= p.num /\ p.num <= 100 * p.den
    /\ total > 0
    /\ p.num * total = 100 * size * p.den

\* C12 (as claimed): every returned language has a percentage that is a
\* number between 0 and 100, equal to 100 * size / (sum of all sizes), also
\* when every size is 0.
C12_AsClaimed ==
    pc = "done" =>
        LET es == EdgesOf(repositories)
        IN  \A i \in 1..Len(topLanguages) :
                IsPercentageOf(topLanguages[i].percentage,
                               SizeOf(es, topLanguages[i].name), SizeOfAll(es))

\* ------------------------------------------------ the errors entry
\* C13 (as claimed): a successful response whose errors entry is absent or
\* an empty array yields a profile when the user is there, and fails with
\* the user-not-found error when it is not; only a non-empty errors array
\* fails with a GraphQL error.
C13_AsClaimed ==
    (IsSome(result) /\ response.ok /\ ~NonEmptyErrors(response.json)) =>
        IF IsSome(UserOf(response.json))
        THEN /\ Get(result).kind = "return"
             /\ IsSome(Get(result).profile)
        ELSE FailedWith(Get(result), NotFoundMessage(request.username))
====
